---------------------------- MODULE Spec2Model ----------------------------
(***************************************************************************)
(* A model of fact/io.py (pyfact): the byte-order normaliser, the h5py     *)
(* column reader, the row counter, the chunked generator, the read and     *)
(* write dispatchers and the extension validator.                          *)
(*                                                                         *)
(* Conventions.  An optional Python value is a sequence of length 0 (None) *)
(* or 1 (the value).  Python indices are 0-based, TLA+ sequences 1-based:  *)
(* row r of Python is element r + 1 here.                                  *)
(***************************************************************************)
EXTENDS Integers, Sequences, FiniteSets, TLC

None == <<>>
Some(x) == <<x>>

(***************************************************************************)
(* Bounds of the model.                                                    *)
(***************************************************************************)
\* largest row count of a group or of a table
MaxRows == 3
\* largest chunksize the caller passes
MaxChunk == 4

(***************************************************************************)
(* Sequence helpers.                                                       *)
(***************************************************************************)
Range(s) == {s[i] : i \in DOMAIN s}

Contains(s, x) == \E i \in DOMAIN s : s[i] = x

Min(a, b) == IF a <= b THEN a ELSE b

Reverse(s) == [i \in 1..Len(s) |-> s[Len(s) + 1 - i]]

RECURSIVE Concat(_)
\* the concatenation of a sequence of sequences
Concat(ss) == IF ss = <<>> THEN <<>> ELSE Head(ss) \o Concat(Tail(ss))

\* list.remove(x): drop the first occurrence of x
Remove(s, x) ==
    LET i == CHOOSE k \in DOMAIN s : s[k] = x /\ \A j \in 1..(k - 1) : s[j] # x
    IN  SubSeq(s, 1, i - 1) \o SubSeq(s, i + 1, Len(s))

\* Python's s[start:end] on a sequence, bounds clipped to the length
Slice(s, start, end) == SubSeq(s, start + 1, Min(end, Len(s)))

(***************************************************************************)
(* numpy arrays.  An array is an object (obj) viewing a buffer (buf) of    *)
(* rows; an element is its sequence of bytes in memory order; tag is       *)
(* dtype.byteorder: "=" native, "<" little, ">" big, "|" not applicable    *)
(* (one-byte items).                                                       *)
(***************************************************************************)
\* the value the bytes of one element stand for under a byte order
RECURSIVE DecodeLittle(_)
DecodeLittle(bytes) ==
    IF bytes = <<>> THEN 0 ELSE Head(bytes) + 256 * DecodeLittle(Tail(bytes))

Decode(bytes, tag, host) ==
    LET order == IF tag \in {"=", "|"} THEN host ELSE tag
    IN  IF order = "<" THEN DecodeLittle(bytes) ELSE DecodeLittle(Reverse(bytes))

\* the two bytes of value v in the given order
Encode(v, tag, host) ==
    LET order == IF tag \in {"=", "|"} THEN host ELSE tag
        little == <<v % 256, v \div 256>>
    IN  IF tag = "|" THEN <<v % 256>>
        ELSE IF order = "<" THEN little ELSE Reverse(little)

\* every element of the rows of an array of rank nd with its bytes reversed
SwapElems(nd, rows) ==
    IF nd = 1 THEN [r \in DOMAIN rows |-> Reverse(rows[r])]
    ELSE IF nd = 2
    THEN [r \in DOMAIN rows |-> [i \in DOMAIN rows[r] |-> Reverse(rows[r][i])]]
    ELSE [r \in DOMAIN rows |->
            [i \in DOMAIN rows[r] |->
                [j \in DOMAIN rows[r][i] |-> Reverse(rows[r][i][j])]]]

\* ndarray.byteswap(): a copy (new object, new buffer) with every element's
\* bytes reversed, the dtype unchanged
byteswap(array) ==
    [array EXCEPT !.obj = array.obj + 1,
                  !.buf = array.obj + 1,
                  !.rows = SwapElems(array.ndim, array.rows)]

\* dtype.byteorder as numpy reports it: "=" for the host's own order
DtypeTag(order, host) == IF order = host THEN "=" ELSE order

\* ndarray.newbyteorder(): a new view of the same buffer whose dtype has the
\* opposite byte order; "|" stays "|", "=" becomes the non-host order
newbyteorder(array, host) ==
    LET other(t) == IF t = "<" THEN ">" ELSE "<"
        tag == IF array.tag = "|" THEN "|"
               ELSE IF array.tag = "=" THEN other(host)
               ELSE DtypeTag(other(array.tag), host)
    IN  [array EXCEPT !.obj = array.obj + 1, !.tag = tag]

\* native_byteorder = {'little': '<', 'big': '>'}[sys.byteorder]
native_byteorder(host) == host

to_native_byteorder(array, host) ==
    IF array.tag \notin {"=", native_byteorder(host)}
    THEN newbyteorder(byteswap(array), host)
    ELSE array

\* the logical values of an array, as numpy compares them
Logical(array, host) ==
    LET D(e) == Decode(e, array.tag, host)
        rows == array.rows
    IN  IF array.ndim = 1 THEN [r \in DOMAIN rows |-> D(rows[r])]
        ELSE IF array.ndim = 2
        THEN [r \in DOMAIN rows |-> [i \in DOMAIN rows[r] |-> D(rows[r][i])]]
        ELSE [r \in DOMAIN rows |->
                [i \in DOMAIN rows[r] |->
                    [j \in DOMAIN rows[r][i] |-> D(rows[r][i][j])]]]

(***************************************************************************)
(* The raw container (h5py).  A file holds at most the group "events"; a   *)
(* group is the sequence of its dataset names in key order, all of rows    *)
(* rows along the first axis (the data model's invariant).                 *)
(***************************************************************************)
\* the datasets a group may hold, in h5py's key order
DatasetNames == <<"a", "b", "p", "q">>

\* Dataset.ndim
Ndim(name) == CASE name = "a" -> 1 [] name = "b" -> 1 [] name = "p" -> 2 [] OTHER -> 3

\* the length of the second axis of the rank-2 dataset
Width == 2

\* Dataset.shape
Shape(name, rows) ==
    IF Ndim(name) = 1 THEN <<rows>>
    ELSE IF Ndim(name) = 2 THEN <<rows, Width>>
    ELSE <<rows, 1, 1>>

\* the byte order the dataset is stored in
DiskOrder(name) ==
    CASE name = "a" -> "<" [] name = "b" -> "|" [] name = "p" -> ">" [] OTHER -> "<"

\* the logical value stored at row r (0-based), position i of the second axis
Val(name, r, i) ==
    CASE name = "a" -> 256 * (r + 1) + 1
      [] name = "b" -> r + 7
      [] name = "p" -> 256 * (r + 1) + 16 + i
      [] OTHER -> 256 * (r + 1) + 32

\* group[col][start:end]: the rows start..end-1 of the dataset as a numpy
\* array in the stored byte order
ReadSlice(name, rows, start, end, host) ==
    LET E(r, i) == Encode(Val(name, r, i), DiskOrder(name), host)
        last == Min(end, rows)
        all == IF Ndim(name) = 1 THEN [r \in 1..rows |-> E(r - 1, 0)]
               ELSE IF Ndim(name) = 2
               THEN [r \in 1..rows |-> [i \in 1..Width |-> E(r - 1, i - 1)]]
               ELSE [r \in 1..rows |-> << <<E(r - 1, 0)>> >>]
    IN  [obj |-> 0, buf |-> 0, ndim |-> Ndim(name),
         tag |-> DtypeTag(DiskOrder(name), host),
         shape |-> [Shape(name, rows) EXCEPT ![1] = IF last > start THEN last - start ELSE 0],
         rows |-> SubSeq(all, start + 1, last)]

\* a variant that finds the group under any key
GetGroupAnyKey(file, key) == IF file.kind = "raw" THEN Some(file.group) ELSE None

\* f.get(key): the group, or None; a raw file holds the group "events" only
GetGroup(file, key) ==
    IF file.kind = "raw" /\ key = "events" THEN Some(file.group) ELSE None

\* h5py.File(file_path, 'r+') raises OSError unless the path is an HDF5 file
OpenFails(file) == file.kind \notin {"raw", "pandas"}

\* [col for col in group.keys() if group[col].ndim == 1]
DefaultColumns(group) == SelectSeq(group, LAMBDA col : Ndim(col) = 1)

(***************************************************************************)
(* pandas DataFrames: the row labels, the column names in order, and the   *)
(* columns' values.                                                        *)
(***************************************************************************)
\* pd.DataFrame()
EmptyFrame == [index |-> <<>>, names |-> <<>>, cols |-> <<>>]

\* pd.DataFrame(index=np.arange(start, end))
FrameWithIndex(start, end) ==
    [index |-> [i \in 1..(end - start) |-> start + i - 1], names |-> <<>>, cols |-> <<>>]

\* df[name] = values: an existing column is replaced in place, a new one is
\* appended; a frame without rows takes the values' positions as its labels
SetColumn(df, name, values) ==
    LET index == IF Len(df.index) = 0 /\ Len(values) > 0
                 THEN [i \in 1..Len(values) |-> i - 1]
                 ELSE df.index
    IN  IF Contains(df.names, name)
        THEN LET k == CHOOSE i \in DOMAIN df.names : df.names[i] = name
             IN  [index |-> index, names |-> df.names,
                  cols |-> [df.cols EXCEPT ![k] = values]]
        ELSE [index |-> index, names |-> Append(df.names, name),
              cols |-> Append(df.cols, values)]

\* col + '_{}'.format(i)
FlatName(col, i) == col \o "_" \o ToString(i)

\* array[:, i] of a rank-2 array of logical values
ColumnOf(values, i) == [r \in DOMAIN values |-> values[r][i + 1]]

RECURSIVE FlattenInto(_, _, _, _, _)
\* for i in range(array.shape[1]): df[col + '_{}'.format(i)] = array[:, i]
FlattenInto(df, col, values, i, width) ==
    IF i >= width THEN df
    ELSE FlattenInto(SetColumn(df, FlatName(col, i), ColumnOf(values, i)),
                     col, values, i + 1, width)

(***************************************************************************)
(* Errors and log records.                                                 *)
(***************************************************************************)
\* an exception: its class, the format text and the rendered arguments
\* (a string renders as one name, a tuple as its names)
Raise(exc, text, args) == [exc |-> exc, text |-> text, args |-> args]

NoError == Raise("None", "", <<>>)

\* IOError('File does not contain group "{}"'.format(key))
GroupMissing(key) == Raise("IOError", "File does not contain group {}", <<<<key>>>>)

\* the error of h5py.File on a path that is no HDF5 file
CannotOpen == Raise("OSError", "unable to open file", <<>>)

\* group[col] on a name the group does not hold
NoSuchDataset(col) == Raise("KeyError", "object does not exist", <<<<col>>>>)

(***************************************************************************)
(* The with blocks of lines 73, 98 and 114.                                *)
(***************************************************************************)
\* a variant that leaves the files open
LeaveOpen(open, names) == open

\* leaving the with blocks of the named functions, by return or by
\* exception, closes their files
WithExit(open, names) == open \ names

(***************************************************************************)
(* read_h5py, lines 79-93: the loop over the requested columns.            *)
(***************************************************************************)
RECURSIVE ReadColumns(_, _, _, _, _)
\* acc is [df, warnings, error]; the loop stops at the first KeyError
ReadColumns(group, rows, cols, acc, host) ==
    IF cols = <<>> THEN acc
    ELSE LET col == Head(cols) IN
         IF ~Contains(group, col)
         THEN [acc EXCEPT !.error = NoSuchDataset(col)]
         ELSE LET array == to_native_byteorder(ReadSlice(col, rows, 0, rows, host), host)
                  values == Logical(array, host)
                  next ==
                    IF array.ndim = 1
                    THEN [acc EXCEPT !.df = SetColumn(acc.df, col, values)]
                    ELSE IF array.ndim = 2
                    THEN [acc EXCEPT !.df = FlattenInto(acc.df, col, values, 0, array.shape[2])]
                    ELSE [acc EXCEPT !.warnings =
                            Append(acc.warnings, "Skipping column " \o col \o ", not 1d or 2d")]
              IN  ReadColumns(group, rows, Tail(cols), next, host)

\* the body of read_h5py inside the with block: [df, warnings, error]
ReadH5pyBody(file, key, columnsArg, host) ==
    LET g == GetGroup(file, key) IN
    IF g = None
    THEN [df |-> EmptyFrame, warnings |-> <<>>, error |-> GroupMissing(key)]
    ELSE LET group == g[1]
             cols == IF columnsArg = None THEN DefaultColumns(group) ELSE columnsArg[1]
         IN  ReadColumns(group, file.rows, cols,
                         [df |-> EmptyFrame, warnings |-> <<>>, error |-> NoError], host)

(***************************************************************************)
(* h5py_get_n_events, lines 99-104, inside its with block.                 *)
(***************************************************************************)
\* next(iter(group.keys())) on a group without datasets
NoFirstKey == Raise("StopIteration", "", <<>>)

\* [n, error]: group[next(iter(group.keys()))].shape[0]
CountRows(file, key) ==
    LET g == GetGroup(file, key) IN
    IF g = None THEN [n |-> 0, error |-> GroupMissing(key)]
    ELSE IF g[1] = <<>> THEN [n |-> 0, error |-> NoFirstKey]
    ELSE [n |-> Shape(Head(g[1]), file.rows)[1], error |-> NoError]

(***************************************************************************)
(* read_h5py_chunked, lines 125-154.                                       *)
(***************************************************************************)
\* int(np.ceil(n / c)) for n >= 0, c >= 1
Ceil(n, c) == (n + c - 1) \div c

\* n_chunks of lines 125-129
NChunks(n, chunksizeArg) == IF chunksizeArg = None THEN 1 ELSE Ceil(n, chunksizeArg[1])

\* chunksize of lines 125-127
ChunkSize(n, chunksizeArg) == IF chunksizeArg = None THEN n ELSE chunksizeArg[1]

\* start = chunk * chunksize
ChunkStart(k, size) == k * size

\* a variant without the min
ChunkEndUnclipped(k, size, n) == (k + 1) * size

\* end = min(n_events, (chunk + 1) * chunksize)
ChunkEnd(k, size, n) == Min(n, (k + 1) * size)

RECURSIVE FilterColumns(_, _, _)
\* lines 132-135: snapshot is copy(columns), acc is [columns, warnings, error];
\* the loop stops at the first KeyError, with the removals made so far kept
FilterColumns(group, snapshot, acc) ==
    IF snapshot = <<>> THEN acc
    ELSE LET col == Head(snapshot) IN
         IF ~Contains(group, col)
         THEN [acc EXCEPT !.error = NoSuchDataset(col)]
         ELSE IF Ndim(col) > 2
         THEN FilterColumns(group, Tail(snapshot),
                [acc EXCEPT !.columns = Remove(acc.columns, col),
                            !.warnings = Append(acc.warnings,
                                "Ignoring column " \o col \o ", not 1d or 2d")])
         ELSE FilterColumns(group, Tail(snapshot), acc)

RECURSIVE ChunkColumns(_, _, _, _, _, _)
\* lines 144-152: the loop filling the chunk's frame
ChunkColumns(df, rows, cols, start, end, host) ==
    IF cols = <<>> THEN df
    ELSE LET col == Head(cols)
             array == to_native_byteorder(ReadSlice(col, rows, start, end, host), host)
             values == Logical(array, host)
             next == IF array.ndim = 1
                     THEN SetColumn(df, col, values)
                     ELSE FlattenInto(df, col, values, 0, array.shape[2])
         IN  ChunkColumns(next, rows, Tail(cols), start, end, host)

\* line 142: index=np.arange(start, end)
ChunkIndex(start, end) == FrameWithIndex(start, end)

\* lines 142-152: the frame of the chunk [start, end)
ChunkFrame(rows, cols, start, end, host) ==
    ChunkColumns(ChunkIndex(start, end), rows, cols, start, end, host)

(***************************************************************************)
(* Paths.  A path is the sequence of the parts of its file name between    *)
(* the dots: "f.tar.csv" is <<"f", "tar", "csv">>, ".csv" is <<"", "csv">>.*)
(***************************************************************************)
\* path.splitext(file_path)[1]: the last dot and what follows it, unless only
\* dots come before it
splitext(p) ==
    IF Len(p) >= 2 /\ \E i \in 1..(Len(p) - 1) : p[i] # ""
    THEN "." \o p[Len(p)]
    ELSE ""

\* line 23
allowed_extensions == <<".hdf", ".hdf5", ".h5", ".json", ".jsonl", ".jsonlines", ".csv">>

\* the branches of write_data, lines 31-43
WriteFormat(extension) ==
    CASE extension \in {".hdf", ".hdf5", ".h5"} -> "hdf"
      [] extension = ".json" -> "json"
      [] extension \in {".jsonl", ".jsonline"} -> "jsonl"
      [] extension = ".csv" -> "csv"
      [] OTHER -> "unsupported"

\* the branches of read_data, lines 165-187
ReadFormat(extension) ==
    CASE extension \in {".hdf", ".hdf5", ".h5"} -> "hdf"
      [] extension = ".json" -> "json"
      [] extension \in {".jsonl", ".jsonlines"} -> "jsonl"
      [] OTHER -> "unsupported"

\* lines 44-48
CannotWrite(extension) ==
    Raise("IOError", "cannot write tabular data with format {}. Allowed formats: {}",
          <<<<extension>>, allowed_extensions>>)

\* line 187
UnknownExtension(extension) ==
    Raise("NotImplementedError", "Unknown data file extension {}", <<<<extension>>>>)

\* line 195
NotAllowed(extension, allowedArg) == Raise("IOError", "Allowed formats: {}", <<allowedArg>>)

\* check_extension, lines 193-195: the error raised, NoError if none
CheckExtension(p, allowedArg) ==
    IF ~Contains(allowedArg, splitext(p))
    THEN NotAllowed(splitext(p), allowedArg)
    ELSE NoError

\* key or default
KeyOr(k, default) == IF k = "" THEN default ELSE k

(***************************************************************************)
(* The encodings write_data produces and read_data parses.                 *)
(***************************************************************************)
\* df.to_hdf(file_path, key=key, format='table')
ToHdf(df, k) ==
    [kind |-> "pandas", group |-> <<>>, rows |-> 0, content |-> [key |-> k, table |-> df]]

\* df.to_json(file_path): one document, column name -> (row label -> value),
\* the row labels as JSON strings
ToJson(df) ==
    [kind |-> "json", group |-> <<>>, rows |-> 0,
     content |-> [k \in DOMAIN df.names |->
                    [name |-> df.names[k],
                     items |-> [r \in DOMAIN df.index |->
                                  [label |-> ToString(df.index[r]),
                                   value |-> df.cols[k][r]]]]]]

\* df.to_json(file_path, lines=True, orient='records'): one record a row
ToJsonLines(df) ==
    [kind |-> "jsonl", group |-> <<>>, rows |-> 0,
     content |-> [r \in DOMAIN df.index |->
                    [k \in DOMAIN df.names |->
                        [name |-> df.names[k], value |-> df.cols[k][r]]]]]

\* df.to_csv(file_path, delimiter=',', index=False): a header, then the rows
\* as text
ToCsv(df) ==
    [kind |-> "csv", group |-> <<>>, rows |-> 0,
     content |-> <<df.names>> \o
                 [r \in DOMAIN df.index |->
                    [k \in DOMAIN df.names |-> ToString(df.cols[k][r])]]]

\* pd.DataFrame(json.load(j)): the columns in document order, the rows
\* labelled by the strings of the document
FromJson(doc) ==
    [index |-> IF doc = <<>> THEN <<>>
               ELSE [r \in DOMAIN doc[1].items |-> doc[1].items[r].label],
     names |-> [k \in DOMAIN doc |-> doc[k].name],
     cols |-> [k \in DOMAIN doc |-> [r \in DOMAIN doc[k].items |-> doc[k].items[r].value]]]

\* pd.read_json(file_path, lines=True): the columns of the records, the rows
\* labelled by position; a file without lines gives pd.DataFrame()
FromJsonLines(lines) ==
    IF lines = <<>> THEN EmptyFrame
    ELSE [index |-> [r \in DOMAIN lines |-> r - 1],
          names |-> [k \in DOMAIN lines[1] |-> lines[1][k].name],
          cols |-> [k \in DOMAIN lines[1] |-> [r \in DOMAIN lines |-> lines[r][k].value]]]

\* write_data, lines 29-48: [file, error]
WriteData(df, p, k, old) ==
    LET extension == splitext(p)
        format == WriteFormat(extension)
    IN  CASE format = "hdf" -> [file |-> ToHdf(df, k), error |-> NoError]
          [] format = "json" -> [file |-> ToJson(df), error |-> NoError]
          [] format = "jsonl" -> [file |-> ToJsonLines(df), error |-> NoError]
          [] format = "csv" -> [file |-> ToCsv(df), error |-> NoError]
          [] OTHER -> [file |-> old, error |-> CannotWrite(extension)]

\* the ways read_pandas_hdf5 (pd.read_hdf) can end on a file: it returns the
\* table stored under the key; a raw container is no table object, and
\* which error pandas raises for it is the library's choice
PandasOutcomes(f, k) ==
    CASE f.kind = "pandas" -> IF f.content.key = k THEN {"ok"} ELSE {"KeyError"}
      [] f.kind = "raw" -> {"TypeError", "ValueError", "KeyError"}
      [] OTHER -> {"OSError"}

\* the error of open() or of a parser on a file that is not what the
\* extension says
CannotParse(f) ==
    IF f.kind = "none" THEN Raise("OSError", "No such file or directory", <<>>)
    ELSE Raise("ValueError", "Expected object or value", <<>>)

(***************************************************************************)
(* The state.                                                              *)
(***************************************************************************)
VARIABLES
    op,           \* the public function the caller invoked
    pc,           \* the position of the call
    host,         \* sys.byteorder as a tag: "<" or ">"
    file,         \* what the path holds on disk
    path,         \* file_path, as the name's parts between its dots
    key,          \* the key argument (None, or the name)
    columnsArg,   \* the columns argument as passed (None, or the list)
    callerList,   \* the present contents of the list object the caller passed
    columns,      \* the local variable columns of read_h5py_chunked
    chunksizeArg, \* the chunksize argument (None, or the number)
    handles,      \* the h5py.File handles that are open
    n_events,     \* locals of read_h5py_chunked
    n_chunks,
    chunksize,
    chunk,
    yielded,      \* the triples the generator has yielded, in order
    requested,    \* how many elements the caller has asked the generator for
    result,       \* the value returned (None before the return)
    error,        \* the exception that left the call (NoError if none)
    warnings,     \* the log.warning records, in order
    calls,        \* the readers read_data has invoked, in order
    h5key,        \* the key argument of the running read_h5py call
    table,        \* the df argument of write_data
    allowed,      \* the allowed_extensions argument of check_extension
    arr,          \* the array argument of to_native_byteorder
    out           \* the results of the successive to_native_byteorder calls

vars == <<op, pc, host, file, path, key, columnsArg, callerList, columns,
          chunksizeArg, handles, n_events, n_chunks, chunksize, chunk, yielded,
          requested, result, error, warnings, calls, h5key, table, allowed, arr, out>>

(***************************************************************************)
(* The inputs.                                                             *)
(***************************************************************************)
Hosts == {"<", ">"}

\* the groups "events" the files hold
Groups == { <<>>, <<"a">>, <<"a", "p">>, <<"p", "q">>, <<"q">>, <<"a", "b", "p", "q">> }

\* the raw-container files
RawFiles == { [kind |-> "raw", group |-> g, rows |-> n, content |-> <<>>] :
                g \in Groups \ {<<>>}, n \in 0..MaxRows }
            \cup { [kind |-> "raw", group |-> <<>>, rows |-> 0, content |-> <<>>] }

\* a path that does not exist
NoFile == [kind |-> "none", group |-> <<>>, rows |-> 0, content |-> <<>>]

\* the columns arguments: None, or a list of names ("z" names no dataset)
ColumnLists == { None, Some(<<>>), Some(<<"a">>), Some(<<"p", "a">>), Some(<<"q">>),
                 Some(<<"a", "q", "p">>), Some(<<"q", "b", "q">>), Some(<<"b", "z">>) }

\* the chunksize arguments
ChunkSizes == {None} \cup {Some(c) : c \in 1..MaxChunk}

\* the arrays handed to to_native_byteorder: rank 1, one or two elements
Bytes == {1, 2}

Elements(tag) ==
    IF tag = "|" THEN {<<b>> : b \in Bytes} ELSE {<<b, c>> : b \in Bytes, c \in Bytes}

Arrays ==
    UNION { { [obj |-> 0, buf |-> 0, ndim |-> 1, tag |-> t, shape |-> <<Len(r)>>, rows |-> r] :
                r \in {<<e>> : e \in Elements(t)}
                      \cup {<<e, f>> : e \in Elements(t), f \in Elements(t)} } :
            t \in {"=", "<", ">", "|"} }

NoArray == [obj |-> 0, buf |-> 0, ndim |-> 1, tag |-> "=", shape |-> <<0>>, rows |-> <<>>]

NoTable == EmptyFrame

\* the paths: "f" with each extension, and names without one
Paths ==
    { <<"f", e>> : e \in {"hdf", "hdf5", "h5", "json", "jsonl", "jsonline",
                          "jsonlines", "csv", "txt", "HDF5"} }
    \cup { <<"f">>, <<"", "csv">>, <<"f", "tar", "json">> }

\* the table of n rows labelled 0..n-1 with the named columns
Table(names, n) ==
    [index |-> [r \in 1..n |-> r - 1],
     names |-> names,
     cols |-> [k \in DOMAIN names |-> [r \in 1..n |-> 10 * k + r]]]

\* the tables handed to write_data
Tables == { Table(names, n) : names \in {<<"x">>, <<"x", "y">>}, n \in 1..MaxRows }

\* files that write_data left behind earlier, under the default key
WrittenFiles ==
    { WriteData(Table(<<"x", "y">>, 2), <<"f", e>>, "table", NoFile).file :
        e \in {"hdf", "json", "jsonl", "csv"} }

\* the state every call starts from
Fresh ==
    /\ callerList = columnsArg
    /\ columns = <<>>
    /\ handles = {}
    /\ n_events = 0 /\ n_chunks = 0 /\ chunksize = 0 /\ chunk = 0
    /\ yielded = <<>>
    /\ requested = 0
    /\ result = None
    /\ error = NoError
    /\ warnings = <<>>
    /\ calls = <<>>
    /\ out = <<>>

InitReadH5py ==
    /\ op = "read_h5py" /\ pc = "h5_call"
    /\ host \in Hosts
    /\ file \in RawFiles \cup {NoFile}
    /\ path = <<"f", "hdf5">>
    /\ key \in {"events", "table"}
    /\ h5key = key
    /\ columnsArg \in ColumnLists
    /\ chunksizeArg = None
    /\ table = NoTable /\ allowed = <<>> /\ arr = NoArray
    /\ Fresh

InitChunked ==
    /\ op = "read_h5py_chunked" /\ pc = "g_call"
    /\ host \in Hosts
    /\ file \in RawFiles \cup {NoFile}
    /\ path = <<"f", "hdf5">>
    /\ key \in {"events", "table"}
    /\ columnsArg \in ColumnLists
    /\ chunksizeArg \in ChunkSizes
    /\ h5key = "" /\ table = NoTable /\ allowed = <<>> /\ arr = NoArray
    /\ Fresh

InitByteorder ==
    /\ op = "to_native_byteorder" /\ pc = "bo_call"
    /\ host \in Hosts
    /\ file = NoFile
    /\ path = <<>>
    /\ key = "events"
    /\ columnsArg = None
    /\ chunksizeArg = None
    /\ h5key = "" /\ table = NoTable /\ allowed = <<>>
    /\ arr \in Arrays
    /\ Fresh

\* write_data(table, path, key), then read_data(path, key) on what it wrote;
\* key "" stands for the argument left out
InitWrite ==
    /\ op = "write_data" /\ pc = "w_call"
    /\ host = "<"
    /\ file = NoFile
    /\ path \in Paths
    /\ key \in {"", "events"}
    /\ columnsArg = None
    /\ chunksizeArg = None
    /\ h5key = ""
    /\ table \in Tables
    /\ allowed = <<>> /\ arr = NoArray
    /\ Fresh

InitReadData ==
    /\ op = "read_data" /\ pc = "r_call"
    /\ host \in Hosts
    /\ file \in RawFiles \cup WrittenFiles \cup {NoFile}
    /\ path \in Paths
    /\ key \in {"", "events", "table"}
    /\ columnsArg \in IF file.kind = "raw" THEN {None, Some(<<"p", "a">>)} ELSE {None}
    /\ chunksizeArg = None
    /\ h5key = ""
    /\ table = NoTable /\ allowed = <<>> /\ arr = NoArray
    /\ Fresh

InitCheck ==
    /\ op = "check_extension" /\ pc = "c_call"
    /\ host = "<"
    /\ file = NoFile
    /\ path \in Paths
    /\ key = ""
    /\ columnsArg = None
    /\ chunksizeArg = None
    /\ h5key = ""
    /\ table = NoTable
    /\ allowed \in {allowed_extensions, <<".csv", ".txt">>}
    /\ arr = NoArray
    /\ Fresh

Init ==
    \/ InitReadH5py \/ InitChunked \/ InitByteorder
    \/ InitWrite \/ InitReadData \/ InitCheck

(***************************************************************************)
(* to_native_byteorder called on arr, then on its own result.              *)
(***************************************************************************)
ApplyOnce ==
    /\ pc = "bo_call"
    /\ out' = <<to_native_byteorder(arr, host)>>
    /\ pc' = "bo_once"
    /\ UNCHANGED <<op, host, file, path, key, columnsArg, callerList, columns,
                   chunksizeArg, handles, n_events, n_chunks, chunksize, chunk,
                   yielded, requested, result, error, warnings, calls, h5key, table, allowed, arr>>

ApplyTwice ==
    /\ pc = "bo_once"
    /\ out' = Append(out, to_native_byteorder(out[1], host))
    /\ pc' = "done"
    /\ UNCHANGED <<op, host, file, path, key, columnsArg, callerList, columns,
                   chunksizeArg, handles, n_events, n_chunks, chunksize, chunk,
                   yielded, requested, result, error, warnings, calls, h5key, table, allowed, arr>>

(***************************************************************************)
(* read_h5py, lines 73-93.                                                 *)
(***************************************************************************)
\* line 73: with h5py.File(file_path, 'r+') as f
ReadH5pyOpen ==
    /\ pc = "h5_call"
    /\ IF OpenFails(file)
       THEN /\ error' = CannotOpen
            /\ pc' = "raised"
            /\ UNCHANGED handles
       ELSE /\ handles' = handles \cup {"read_h5py"}
            /\ pc' = "h5_body"
            /\ UNCHANGED error
    /\ UNCHANGED <<op, host, file, path, key, columnsArg, callerList, columns,
                   chunksizeArg, n_events, n_chunks, chunksize, chunk, yielded,
                   requested, result, warnings, calls, h5key, table, allowed, arr, out>>

\* lines 74-93: the body, the exit of the with block, the return
ReadH5pyRun ==
    /\ pc = "h5_body"
    /\ LET r == ReadH5pyBody(file, h5key, columnsArg, host) IN
         /\ warnings' = warnings \o r.warnings
         /\ error' = r.error
         /\ result' = IF r.error = NoError THEN Some(r.df) ELSE None
         /\ pc' = IF r.error = NoError THEN "done" ELSE "raised"
    /\ handles' = WithExit(handles, {"read_h5py"})
    /\ UNCHANGED <<op, host, file, path, key, columnsArg, callerList, columns,
                   chunksizeArg, n_events, n_chunks, chunksize, chunk, yielded,
                   requested, calls, h5key, table, allowed, arr, out>>

(***************************************************************************)
(* read_h5py_chunked, lines 107-154: a generator function.  Calling it     *)
(* runs none of its body; the body runs when the caller asks for an        *)
(* element, up to the next yield.                                          *)
(***************************************************************************)
\* the call read_h5py_chunked(...): the generator object is created
GenCall ==
    /\ pc = "g_call"
    /\ pc' = "created"
    /\ UNCHANGED <<op, host, file, path, key, columnsArg, callerList, columns,
                   chunksizeArg, handles, n_events, n_chunks, chunksize, chunk,
                   yielded, requested, result, error, warnings, calls, h5key, table, allowed, arr, out>>

\* next(gen): the body starts, or resumes after the yield of line 154
CallerNext ==
    /\ pc \in {"created", "yielded"}
    /\ requested' = requested + 1
    /\ IF pc = "created"
       THEN pc' = "g_open" /\ UNCHANGED chunk
       ELSE pc' = "g_loop" /\ chunk' = chunk + 1
    /\ UNCHANGED <<op, host, file, path, key, columnsArg, callerList, columns,
                   chunksizeArg, handles, n_events, n_chunks, chunksize, yielded,
                   result, error, warnings, calls, h5key, table, allowed, arr, out>>

\* gen.close(), also run when an abandoned generator is collected: at a
\* yield GeneratorExit leaves the with block, which closes the file
CallerClose ==
    /\ pc \in {"created", "yielded"}
    /\ pc' = "closed"
    /\ handles' = IF pc = "yielded" THEN WithExit(handles, {"read_h5py_chunked"}) ELSE handles
    /\ UNCHANGED <<op, host, file, path, key, columnsArg, callerList, columns,
                   chunksizeArg, n_events, n_chunks, chunksize, chunk, yielded,
                   requested, result, error, warnings, calls, h5key, table, allowed, arr, out>>

\* line 114: with h5py.File(file_path, 'r+') as f
GenOpen ==
    /\ pc = "g_open"
    /\ IF OpenFails(file)
       THEN /\ error' = CannotOpen
            /\ pc' = "raised"
            /\ UNCHANGED handles
       ELSE /\ handles' = handles \cup {"read_h5py_chunked"}
            /\ pc' = "g_group"
            /\ UNCHANGED error
    /\ UNCHANGED <<op, host, file, path, key, columnsArg, callerList, columns,
                   chunksizeArg, n_events, n_chunks, chunksize, chunk, yielded,
                   requested, result, warnings, calls, h5key, table, allowed, arr, out>>

\* lines 115-121: the group, and the default of columns; an explicit list
\* stays the caller's own object
GenGroup ==
    /\ pc = "g_group"
    /\ LET g == GetGroup(file, key) IN
       IF g = None
       THEN /\ error' = GroupMissing(key)
            /\ pc' = "raised"
            /\ handles' = WithExit(handles, {"read_h5py_chunked"})
            /\ UNCHANGED columns
       ELSE /\ columns' = IF columnsArg = None THEN DefaultColumns(g[1]) ELSE columnsArg[1]
            /\ pc' = "g_count"
            /\ UNCHANGED <<error, handles>>
    /\ UNCHANGED <<op, host, file, path, key, columnsArg, callerList,
                   chunksizeArg, n_events, n_chunks, chunksize, chunk, yielded,
                   requested, result, warnings, calls, h5key, table, allowed, arr, out>>

\* line 123 calling h5py_get_n_events, line 98: a second handle on the file
CountOpen ==
    /\ pc = "g_count"
    /\ handles' = handles \cup {"h5py_get_n_events"}
    /\ pc' = "g_counting"
    /\ UNCHANGED <<op, host, file, path, key, columnsArg, callerList, columns,
                   chunksizeArg, n_events, n_chunks, chunksize, chunk, yielded,
                   requested, result, error, warnings, calls, h5key, table, allowed, arr, out>>

\* lines 99-104 and the return to line 123; an exception leaves both with
\* blocks
CountRun ==
    /\ pc = "g_counting"
    /\ LET r == CountRows(file, key) IN
       IF r.error = NoError
       THEN /\ n_events' = r.n
            /\ handles' = WithExit(handles, {"h5py_get_n_events"})
            /\ pc' = "g_plan"
            /\ UNCHANGED error
       ELSE /\ error' = r.error
            /\ handles' = WithExit(handles, {"h5py_get_n_events", "read_h5py_chunked"})
            /\ pc' = "raised"
            /\ UNCHANGED n_events
    /\ UNCHANGED <<op, host, file, path, key, columnsArg, callerList, columns,
                   chunksizeArg, n_chunks, chunksize, chunk, yielded,
                   requested, result, warnings, calls, h5key, table, allowed, arr, out>>

\* lines 125-130
GenPlan ==
    /\ pc = "g_plan"
    /\ n_chunks' = NChunks(n_events, chunksizeArg)
    /\ chunksize' = ChunkSize(n_events, chunksizeArg)
    /\ pc' = "g_filter"
    /\ UNCHANGED <<op, host, file, path, key, columnsArg, callerList, columns,
                   chunksizeArg, handles, n_events, chunk, yielded,
                   requested, result, error, warnings, calls, h5key, table, allowed, arr, out>>

\* the list object that columns.remove changes: the caller's own when one
\* was passed
AfterRemove(passed, list, kept) == IF passed = None THEN list ELSE Some(kept)

\* lines 132-135
GenFilter ==
    /\ pc = "g_filter"
    /\ LET r == FilterColumns(GetGroup(file, key)[1], columns,
                              [columns |-> columns, warnings |-> <<>>, error |-> NoError])
       IN  /\ columns' = r.columns
           /\ callerList' = AfterRemove(columnsArg, callerList, r.columns)
           /\ warnings' = warnings \o r.warnings
           /\ error' = r.error
           /\ IF r.error = NoError
              THEN pc' = "g_loop" /\ UNCHANGED handles
              ELSE pc' = "raised" /\ handles' = WithExit(handles, {"read_h5py_chunked"})
    /\ chunk' = 0
    /\ UNCHANGED <<op, host, file, path, key, columnsArg,
                   chunksizeArg, n_events, n_chunks, chunksize, yielded,
                   requested, result, calls, h5key, table, allowed, arr, out>>

\* lines 137-154: the next chunk is built and yielded, or the loop ends and
\* the with block closes the file
GenLoop ==
    /\ pc = "g_loop"
    /\ IF chunk < n_chunks
       THEN LET start == ChunkStart(chunk, chunksize)
                end == ChunkEnd(chunk, chunksize, n_events)
                df == ChunkFrame(file.rows, columns, start, end, host)
            IN  /\ yielded' = Append(yielded, [df |-> df, start |-> start, end |-> end])
                /\ pc' = "yielded"
                /\ UNCHANGED handles
       ELSE /\ pc' = "done"
            /\ handles' = WithExit(handles, {"read_h5py_chunked"})
            /\ UNCHANGED yielded
    /\ UNCHANGED <<op, host, file, path, key, columnsArg, callerList, columns,
                   chunksizeArg, n_events, n_chunks, chunksize, chunk,
                   requested, result, error, warnings, calls, h5key, table, allowed, arr, out>>

(***************************************************************************)
(* write_data, lines 27-48, and the caller reading the path back.          *)
(***************************************************************************)
WriteDataCall ==
    /\ pc = "w_call"
    /\ LET r == WriteData(table, path, KeyOr(key, "table"), file) IN
         /\ file' = r.file
         /\ error' = r.error
         /\ pc' = IF r.error = NoError THEN "written" ELSE "raised"
    /\ UNCHANGED <<op, host, path, key, columnsArg, callerList, columns,
                   chunksizeArg, handles, n_events, n_chunks, chunksize, chunk,
                   yielded, requested, result, warnings, calls, h5key, table,
                   allowed, arr, out>>

\* the caller's next call: read_data(path, key)
ReadBack ==
    /\ pc = "written"
    /\ pc' = "r_call"
    /\ UNCHANGED <<op, host, file, path, key, columnsArg, callerList, columns,
                   chunksizeArg, handles, n_events, n_chunks, chunksize, chunk,
                   yielded, requested, result, error, warnings, calls, h5key, table,
                   allowed, arr, out>>

(***************************************************************************)
(* read_data, lines 162-189.                                               *)
(***************************************************************************)
\* lines 163-165 and 180-189: the dispatch on the extension, and the text
\* formats read in one step
ReadDataDispatch ==
    /\ pc = "r_call"
    /\ LET extension == splitext(path)
           format == ReadFormat(extension)
       IN  CASE format = "hdf" ->
                  /\ pc' = "r_pandas"
                  /\ UNCHANGED <<result, error>>
             [] format = "json" ->
                  IF file.kind = "json"
                  THEN /\ result' = Some(FromJson(file.content))
                       /\ pc' = "done"
                       /\ UNCHANGED error
                  ELSE /\ error' = CannotParse(file)
                       /\ pc' = "raised"
                       /\ UNCHANGED result
             [] format = "jsonl" ->
                  IF file.kind = "jsonl"
                  THEN /\ result' = Some(FromJsonLines(file.content))
                       /\ pc' = "done"
                       /\ UNCHANGED error
                  ELSE /\ error' = CannotParse(file)
                       /\ pc' = "raised"
                       /\ UNCHANGED result
             [] OTHER ->
                  /\ error' = UnknownExtension(extension)
                  /\ pc' = "raised"
                  /\ UNCHANGED result
    /\ UNCHANGED <<op, host, file, path, key, columnsArg, callerList, columns,
                   chunksizeArg, handles, n_events, n_chunks, chunksize, chunk,
                   yielded, requested, warnings, calls, h5key, table,
                   allowed, arr, out>>

\* a variant of the except clause that catches every error
CaughtAll(outcome) == outcome # "ok"

\* line 172: except (TypeError, ValueError)
Caught(outcome) == outcome \in {"TypeError", "ValueError"}

\* lines 166-172: the table-object read with key or 'table'
ReadPandas ==
    /\ pc = "r_pandas"
    /\ \E o \in PandasOutcomes(file, KeyOr(key, "table")) :
         /\ calls' = Append(calls, [fn |-> "read_pandas_hdf5", key |-> KeyOr(key, "table"),
                                    columns |-> columnsArg, outcome |-> o])
         /\ IF o = "ok"
            THEN /\ result' = Some(file.content.table)
                 /\ pc' = "done"
                 /\ UNCHANGED error
            ELSE IF Caught(o)
            THEN /\ pc' = "r_fallback"
                 /\ UNCHANGED <<result, error>>
            ELSE /\ error' = Raise(o, "", <<>>)
                 /\ pc' = "raised"
                 /\ UNCHANGED result
    /\ UNCHANGED <<op, host, file, path, key, columnsArg, callerList, columns,
                   chunksizeArg, handles, n_events, n_chunks, chunksize, chunk,
                   yielded, requested, warnings, h5key, table, allowed, arr, out>>

\* lines 174-178: the call of read_h5py with key or 'events'
ReadFallback ==
    /\ pc = "r_fallback"
    /\ calls' = Append(calls, [fn |-> "read_h5py", key |-> KeyOr(key, "events"),
                               columns |-> columnsArg, outcome |-> "called"])
    /\ h5key' = KeyOr(key, "events")
    /\ pc' = "h5_call"
    /\ UNCHANGED <<op, host, file, path, key, columnsArg, callerList, columns,
                   chunksizeArg, handles, n_events, n_chunks, chunksize, chunk,
                   yielded, requested, result, error, warnings, table, allowed, arr, out>>

(***************************************************************************)
(* check_extension, lines 192-195.                                         *)
(***************************************************************************)
CheckExtensionCall ==
    /\ pc = "c_call"
    /\ error' = CheckExtension(path, allowed)
    /\ pc' = IF CheckExtension(path, allowed) = NoError THEN "done" ELSE "raised"
    /\ UNCHANGED <<op, host, file, path, key, columnsArg, callerList, columns,
                   chunksizeArg, handles, n_events, n_chunks, chunksize, chunk,
                   yielded, requested, result, warnings, calls, h5key, table,
                   allowed, arr, out>>

Next ==
    \/ ApplyOnce \/ ApplyTwice
    \/ ReadH5pyOpen \/ ReadH5pyRun
    \/ GenCall \/ CallerNext \/ CallerClose
    \/ GenOpen \/ GenGroup \/ CountOpen \/ CountRun \/ GenPlan \/ GenFilter \/ GenLoop
    \/ WriteDataCall \/ ReadBack
    \/ ReadDataDispatch \/ ReadPandas \/ ReadFallback
    \/ CheckExtensionCall

Spec == Init /\ [][Next]_vars

(***************************************************************************)
(* The properties.                                                         *)
(***************************************************************************)
\* the call has ended: by return, by exception, or the generator was closed
Ended == pc \in {"done", "raised", "closed"}

\* the row count of the group "events" of the file
N == file.rows

\* the number of chunks of c rows it takes to cover n rows
ChunksNeeded(n, c) == CHOOSE k \in 0..n : k * c >= n /\ \A j \in 0..(k - 1) : j * c < n

\* the chunked reader runs on a group of N >= 1 rows with chunksize None or
\* in 1..N
ChunkedCase ==
    /\ op = "read_h5py_chunked"
    /\ N >= 1
    /\ chunksizeArg # None => chunksizeArg[1] \in 1..N

\* C1: the triples yielded by read_h5py_chunked partition [0, N) in order:
\* the first start is 0, each end is the next start, every chunk but the last
\* has exactly c rows, the last ends at N and holds the remainder, and a
\* complete iteration yields ceil(N / c) triples; with chunksize None it
\* yields the one triple (table, 0, N).
C1_ChunksPartitionRows ==
    ChunkedCase =>
        LET c == IF chunksizeArg = None THEN N ELSE chunksizeArg[1]
            k == ChunksNeeded(N, c)
        IN  /\ Len(yielded) <= k
            /\ yielded # <<>> => yielded[1].start = 0
            /\ \A i \in 1..(Len(yielded) - 1) : yielded[i].end = yielded[i + 1].start
            /\ \A i \in DOMAIN yielded :
                 /\ i < k => yielded[i].end - yielded[i].start = c
                 /\ i = k => /\ yielded[i].end = N
                             /\ yielded[i].end - yielded[i].start = N - c * (k - 1)
                 /\ Len(yielded[i].df.index) = yielded[i].end - yielded[i].start
            /\ pc = "done" => Len(yielded) = k
            /\ (pc = "done" /\ chunksizeArg = None) =>
                 (Len(yielded) = 1 /\ yielded[1].start = 0 /\ yielded[1].end = N)

\* a complete iteration of two chunks whose last chunk is the shorter one
C1_Witness ==
    /\ ChunkedCase
    /\ pc = "done"
    /\ Len(yielded) = 2
    /\ yielded[2].end - yielded[2].start < yielded[1].end - yielded[1].start

\* C9: every handle is closed by the function that opened it on every exit:
\* the chunked reader's file is open at every yield, and no handle is open
\* once a call has returned, raised (the missing group included) or its
\* generator was closed; the row counter's and read_h5py's handles are open
\* only while those functions run.
C9_HandlesClosedOnEveryExit ==
    /\ Ended => handles = {}
    /\ (op = "read_h5py_chunked" /\ pc = "yielded") => "read_h5py_chunked" \in handles
    /\ (op = "read_h5py_chunked" /\ pc \in {"g_call", "created"}) => handles = {}
    /\ "h5py_get_n_events" \in handles => pc = "g_counting"
    /\ "read_h5py" \in handles => pc = "h5_body"
    /\ "read_h5py_chunked" \in handles =>
         pc \in {"g_group", "g_count", "g_counting", "g_plan", "g_filter", "g_loop", "yielded"}

\* the iteration was abandoned after the first of several chunks and the
\* generator closed
C9_Witness ==
    /\ op = "read_h5py_chunked"
    /\ pc = "closed"
    /\ Len(yielded) = 1
    /\ n_chunks > 1
    /\ handles = {}

\* C10: after the sequence has been consumed the list passed as columns holds
\* the names it held before the call, in the same order.
C10_ColumnsListUnchanged ==
    (op = "read_h5py_chunked" /\ columnsArg # None /\ pc = "done") =>
        callerList = columnsArg

\* pd.concat of the chunk tables in yield order
ConcatFrames(triples) ==
    [index |-> Concat([i \in DOMAIN triples |-> triples[i].df.index]),
     names |-> triples[1].df.names,
     cols |-> [k \in DOMAIN triples[1].df.names |->
                 Concat([i \in DOMAIN triples |-> triples[i].df.cols[k]])]]

\* the row labels 0..n-1
Positions(n) == [r \in 1..n |-> r - 1]

\* C2: the chunk tables of a complete iteration, concatenated in yield order,
\* are exactly the table of one read_h5py call on the same file, key and
\* columns: the same column names in order, the same values, and the row
\* labels 0..N-1.
C2_ChunksConcatToWholeRead ==
    (ChunkedCase /\ pc = "done") =>
        LET whole == ReadH5pyBody(file, key, columnsArg, host)
        IN  /\ whole.error = NoError
            /\ ConcatFrames(yielded) = whole.df
            /\ whole.df.index = Positions(N)

\* What holds of the two readers: the concatenation has the columns and the
\* values of the read_h5py table, each chunk is labelled start..end-1, and the
\* labels agree (0..N-1) when the selection gives at least one column; when
\* it gives none read_h5py returns a table without rows while the chunks keep
\* their labels.
ChunksConcatToWholeReadButLabels ==
    (ChunkedCase /\ pc = "done") =>
        LET whole == ReadH5pyBody(file, key, columnsArg, host)
            cat == ConcatFrames(yielded)
        IN  /\ whole.error = NoError
            /\ cat.names = whole.df.names
            /\ cat.cols = whole.df.cols
            /\ cat.index = Positions(N)
            /\ \A i \in DOMAIN yielded :
                 yielded[i].df.index =
                    [r \in 1..(yielded[i].end - yielded[i].start) |-> yielded[i].start + r - 1]
            /\ whole.df.index = IF whole.df.names = <<>> THEN <<>> ELSE Positions(N)

\* two chunks of a scalar and a flattened vector column, a rank-3 dataset
\* left out
TwoChunksOfFlattenedColumns ==
    /\ ChunkedCase /\ pc = "done"
    /\ Len(yielded) = 2
    /\ columnsArg = Some(<<"a", "q", "p">>)
    /\ Len(yielded[2].df.names) >= 3
    /\ yielded[2].df.index[1] = yielded[2].start
    /\ yielded[2].start > 0

\* the file holds raw groups but none under the key
GroupAbsent == file.kind = "raw" /\ key # "events"

\* C3: with the group missing the call that creates the sequence
\* raises the NotFound error, before the caller asks for an element.
C3_MissingGroupRaisedByCall ==
    (op = "read_h5py_chunked" /\ GroupAbsent /\ pc # "g_call") =>
        (error.exc = "IOError" /\ requested = 0)

\* C3, amended: with the group missing the creating call raises nothing
\* and opens nothing; the error leaves the first request for an element,
\* names the key, comes before any element, and leaves no file open.
C3_MissingGroupRaisedOnFirstRequest ==
    (op = "read_h5py_chunked" /\ GroupAbsent) =>
        /\ yielded = <<>>
        /\ pc \in {"g_call", "created", "closed", "g_open", "g_group", "raised"}
        /\ requested = 0 => (error = NoError /\ handles = {})
        /\ pc = "raised" =>
             /\ error = Raise("IOError", "File does not contain group {}", <<<<key>>>>)
             /\ requested = 1
             /\ handles = {}

\* the missing group has been reported to the first request for an element
C3_Witness ==
    /\ op = "read_h5py_chunked" /\ GroupAbsent
    /\ pc = "raised"
    /\ requested = 1
    /\ error.exc = "IOError"

\* the columns a request stands for: <<name, -1>> for a rank-1 dataset,
\* <<name, i>> for position i of a rank-2 dataset, none for other ranks
RECURSIVE ExpectedColumns(_)
ExpectedColumns(cols) ==
    IF cols = <<>> THEN <<>>
    ELSE LET c == Head(cols)
             mine == IF Ndim(c) = 1 THEN << <<c, -1>> >>
                     ELSE IF Ndim(c) = 2 THEN [i \in 1..Width |-> <<c, i - 1>>]
                     ELSE <<>>
         IN  mine \o ExpectedColumns(Tail(cols))

\* the columns read_h5py is asked for, the default resolved
Requested ==
    IF columnsArg = None THEN SelectSeq(file.group, LAMBDA c : Ndim(c) = 1)
    ELSE columnsArg[1]

\* the content of the table read_h5py returned, but for its row count
ReadH5pyColumnsAsRequested ==
    LET df == result[1]
        want == ExpectedColumns(Requested)
        other == SelectSeq(Requested, LAMBDA c : Ndim(c) \notin {1, 2})
    IN  /\ df.names = [k \in DOMAIN want |->
                         IF want[k][2] < 0 THEN want[k][1]
                         ELSE want[k][1] \o "_" \o ToString(want[k][2])]
        /\ df.cols = [k \in DOMAIN want |->
                        [r \in 1..N |->
                            Val(want[k][1], r - 1, IF want[k][2] < 0 THEN 0 ELSE want[k][2])]]
        /\ warnings = [k \in DOMAIN other |->
                         "Skipping column " \o other[k] \o ", not 1d or 2d"]

\* C7: the columns of read_h5py's table are those of the request,
\* in order, flattened and valued as described, with one warning for each
\* dataset of another rank, and the table has the group's row count.
C7_ReadH5pyColumnsAndRowCount ==
    (op = "read_h5py" /\ pc = "done") =>
        /\ ReadH5pyColumnsAsRequested
        /\ Len(result[1].index) = N

\* What holds of read_h5py: the same, the row count being the group's when
\* the table has at least one column and 0 when it has none.
ReadH5pyColumnsAndRowCountIfAny ==
    (op = "read_h5py" /\ pc = "done") =>
        /\ ReadH5pyColumnsAsRequested
        /\ result[1].index = IF result[1].names = <<>> THEN <<>> ELSE Positions(N)

\* a scalar, a skipped rank-3 and a flattened vector column of two rows or more
ReadOfFlattenedColumns ==
    /\ op = "read_h5py" /\ pc = "done"
    /\ columnsArg = Some(<<"a", "q", "p">>)
    /\ N >= 2
    /\ Len(warnings) = 1
    /\ Len(result[1].names) >= 3

\* C8: to_native_byteorder returns its argument itself, uncopied, for the
\* tags native, host order and not-applicable, and otherwise a byte-swapped
\* copy of the same logical values in host-native order; applying it twice
\* gives values equal to applying it once.
C8_NoCopyUnlessNonHost ==
    (op = "to_native_byteorder" /\ out # <<>>) =>
        /\ arr.tag \in {"=", host, "|"} => out[1] = arr
        /\ arr.tag \notin {"=", host, "|"} =>
             /\ out[1].obj # arr.obj /\ out[1].buf # arr.buf
             /\ out[1].tag = "="
        /\ Logical(out[1], host) = Logical(arr, host)
        /\ Len(out) = 2 => Logical(out[2], host) = Logical(out[1], host)

\* What holds of to_native_byteorder: the argument itself is returned for
\* the tags native and host order; for the non-host order and for
\* not-applicable the result is a byte-swapped copy with the same logical
\* values, in host-native order (not-applicable stays so); a second
\* application leaves the values equal.
CopyUnlessNativeOrHost ==
    (op = "to_native_byteorder" /\ out # <<>>) =>
        /\ arr.tag \in {"=", host} => out[1] = arr
        /\ arr.tag \notin {"=", host} =>
             /\ out[1].obj # arr.obj /\ out[1].buf # arr.buf
             /\ out[1].rows = [r \in DOMAIN arr.rows |-> Reverse(arr.rows[r])]
             /\ out[1].tag = IF arr.tag = "|" THEN "|" ELSE "="
        /\ Logical(out[1], host) = Logical(arr, host)
        /\ Len(out) = 2 => Logical(out[2], host) = Logical(out[1], host)

\* an array in the non-host order, its bytes unequal, normalised twice
NonHostArrayNormalisedTwice ==
    /\ op = "to_native_byteorder" /\ Len(out) = 2
    /\ arr.tag \notin {"=", host, "|"}
    /\ \E r \in DOMAIN arr.rows : arr.rows[r][1] # arr.rows[r][2]
    /\ out[1].obj # arr.obj

\* the extension of the path is one of the table-container family
HdfPath == splitext(path) \in {".hdf", ".hdf5", ".h5"}

\* C4: for a path ending in .hdf, .hdf5 or .h5 read_data first attempts the
\* table-object read with key or 'table'; read_h5py is invoked, with key or
\* 'events' and the same columns, if and only if that attempt fails with
\* TypeError or ValueError; a successful attempt is returned without
\* read_h5py, and any other failure reaches the caller unchanged.
C4_FallbackIffTypeOrValueError ==
    (op = "read_data" /\ HdfPath) =>
        /\ Len(calls) <= 2
        /\ pc \notin {"r_call", "r_pandas"} => Len(calls) >= 1
        /\ pc \in {"h5_call", "h5_body"} => Len(calls) = 2
        /\ Len(calls) >= 1 =>
             /\ calls[1].fn = "read_pandas_hdf5"
             /\ calls[1].key = (IF key = "" THEN "table" ELSE key)
             /\ calls[1].columns = columnsArg
        /\ Len(calls) = 2 =>
             /\ calls[1].outcome \in {"TypeError", "ValueError"}
             /\ calls[2].fn = "read_h5py"
             /\ calls[2].key = (IF key = "" THEN "events" ELSE key)
             /\ calls[2].columns = columnsArg
        /\ (Ended /\ calls[1].outcome \in {"TypeError", "ValueError"}) => Len(calls) = 2
        /\ (Ended /\ calls[1].outcome = "ok") =>
             (pc = "done" /\ Len(calls) = 1 /\ result = Some(file.content.table))
        /\ (Ended /\ calls[1].outcome \notin {"ok", "TypeError", "ValueError"}) =>
             (pc = "raised" /\ Len(calls) = 1 /\ error.exc = calls[1].outcome
              /\ handles = {})

\* the table-object read failed with TypeError and the fallback returned a
\* table of the raw container
C4_Witness ==
    /\ op = "read_data" /\ HdfPath
    /\ pc = "done"
    /\ Len(calls) = 2
    /\ calls[1].outcome = "TypeError"
    /\ result # None /\ result[1].names # <<>>

\* the extensions write_data takes
WriteSet == {".hdf", ".hdf5", ".h5", ".json", ".jsonl", ".jsonline", ".csv"}

\* the extensions read_data takes
ReadSet == {".hdf", ".hdf5", ".h5", ".json", ".jsonl", ".jsonlines"}

\* C5: a table written by write_data to a path whose extension it accepts is
\* returned by read_data on that path and key with the same column names,
\* row count and values; read_data never rejects the extension.
C5_WriteThenReadRoundTrip ==
    (op = "write_data" /\ splitext(path) \in WriteSet /\ Ended) =>
        /\ pc = "done"
        /\ result[1].names = table.names
        /\ Len(result[1].index) = Len(table.index)
        /\ result[1].cols = table.cols

\* the error is one of the three for an extension that is not recognised
Unsupported(e) ==
    \/ e.exc = "NotImplementedError"
    \/ e.exc = "IOError" /\ e.text \in {"Allowed formats: {}",
            "cannot write tabular data with format {}. Allowed formats: {}"}

\* the message of the error names the extension
NamesExtension(e, extension) ==
    extension = "" \/ \E i \in DOMAIN e.args : e.args[i] = <<extension>>

\* C6: read_data, write_data and check_extension on a path whose extension
\* they do not recognise read and write nothing and fail with an error that
\* names the extension; on a recognised extension they raise no such error.
C6_UnsupportedExtensionNamed ==
    LET extension == splitext(path)
        recognised == CASE op = "read_data" -> extension \in ReadSet
                        [] op = "write_data" -> extension \in WriteSet
                        [] op = "check_extension" -> Contains(allowed, extension)
                        [] OTHER -> TRUE
    IN  (op \in {"read_data", "write_data", "check_extension"} /\ Ended) =>
            IF recognised
            THEN IF op = "write_data"
                 THEN error.text # "cannot write tabular data with format {}. Allowed formats: {}"
                 ELSE ~Unsupported(error)
            ELSE /\ pc = "raised"
                 /\ Unsupported(error)
                 /\ NamesExtension(error, extension)
                 /\ op = "write_data" => file = NoFile
                 /\ calls = <<>> /\ handles = {} /\ result = None

=============================================================================
